---- MODULE Spec2Model ----
(***************************************************************************)
(* The three fixture generators of xk6-streamloader:                       *)
(*   scripts/generate_large_file.py  exact-size text file                  *)
(*   generate_large_csv.py           header + 10,000 records               *)
(*   generate_large_json.py          array of 1000 request descriptors     *)
(* Each script runs alone, top to bottom.  A behaviour of the model is one *)
(* script, started once and possibly started again on the file it left.    *)
(***************************************************************************)
EXTENDS Integers, Sequences, FiniteSets, TLC

VARIABLES
  script,          \* which generator this behaviour runs: "text", "csv", "json"
  pc,              \* position of the running script
  ran_before,      \* the script was run before: its output file already exists
  prev_len,        \* <<n>>: the previous run completed and left n units; <<>> otherwise
  exc,             \* the exception that ended the run, "none" while there is none
  f_open,          \* the with-block's file handle is open
  printed,         \* the completion message was printed
  size_in_mb,      \* generate_large_file's argument, [num, den]: num/den megabytes
  size_in_bytes,   \* generate_large_file.py:12
  bytes_written,   \* generate_large_file.py:19
  remaining_bytes, \* generate_large_file.py:25, <<>> until assigned
  txt_file,        \* bytes held by the text file
  full_writes,     \* f.write(random_text_chunk) calls completed in this run
  last_len,        \* bytes of last_chunk written in this run
  exit_via,        \* how the while loop was left: "none", "cond", "break", "raise"
  reported,        \* the size the completion message shows, in hundredths of a MB
  i,               \* loop variable of the CSV for-loop and the JSON comprehension
  csv_file,        \* the CSV file, as the summary of its lines (see CsvAppendLine)
  data,            \* generate_large_json.py:3, the list being built
  json_file        \* the JSON document held by large.json

vars == <<script, pc, ran_before, prev_len, exc, f_open, printed, size_in_mb,
          size_in_bytes, bytes_written, remaining_bytes, txt_file, full_writes,
          last_len, exit_via, reported, i, csv_file, data, json_file>>

textVars == <<size_in_mb, size_in_bytes, bytes_written, remaining_bytes, txt_file,
              full_writes, last_len, exit_via, reported>>

----------------------------------------------------------------------------
(* Bounds of the model *)

\* largest whole-megabyte argument tried
MaxMB == 2
\* largest numerator of the fractional arguments num/FloatDen tried
MaxFloatNum == 5

----------------------------------------------------------------------------
(* Constants of the program *)

chunk_size == 1024
KB == 1024
MB == KB * KB
\* every character of the two alphabets is ASCII: one byte each in UTF-8
BytesPerChar == 1
\* denominator of the fractional arguments: steps of half a KB
FloatDen == 2 * KB

IsInt(x) == x.den = 1

\* the arguments tried: 0..MaxMB megabytes as Python ints, and the floats
\* n/2048 MB (n * 512 bytes) for small n and for 1 MB + 1 KB
SizeInputs ==
  {[num |-> n, den |-> 1] : n \in 0..MaxMB}
    \cup {[num |-> n, den |-> FloatDen] : n \in (0..MaxFloatNum) \cup {FloatDen + 2}}

NoSize == [num |-> 0, den |-> 1]

----------------------------------------------------------------------------
(* scripts/generate_large_file.py *)

\* a megabyte count taken as 1000 * 1000 bytes
SizeInBytesDecimal(x) == (x.num * 1000 * 1000) \div x.den

\* line 12: size_in_mb * 1024 * 1024.  den divides 1024 * 1024 for every
\* argument of SizeInputs, so the product is exact and is computed as
\* num * (1024 * 1024 / den), which stays within TLC's 32-bit integers.
SizeInBytes(x) == x.num * ((1024 * 1024) \div x.den)

\* an encoding of two bytes per character
Utf8LenWide(n) == n * 2

\* line 22: len(s.encode('utf-8')) of n characters of the alphabet
Utf8Len(n) == n * BytesPerChar

\* line 21, 28: the bytes f.write puts in the file for n characters
WrittenBytes(n) == n * BytesPerChar

\* the check made one chunk late
OvershootsLate(bw, size) == bw > size

\* the check taking an exact fit for an overshoot
OvershootsEarly(bw, size) == bw + chunk_size >= size

\* line 23
Overshoots(bw, size) == bw + chunk_size > size

\* open(..., 'a'): the old content is kept
AppendedTxt == txt_file

\* line 18: open(file_path, 'w') truncates
TruncatedTxt == 0

\* what a write that fails may have put in the file before failing: nothing,
\* half of the n bytes, or all but one
PartialWrites(n) == {0, n \div 2, n - 1}

\* line 31: f"{bytes / (1024 * 1024):.2f}", as hundredths of a MB (round half even)
Hundredths(bytes) ==
  LET q == (bytes * 100) \div MB
      r == (bytes * 100) % MB
  IN  IF 2 * r > MB \/ (2 * r = MB /\ q % 2 = 1) THEN q + 1 ELSE q

\* line 18: entering the with-block
TextOpen ==
  /\ script = "text" /\ pc = "call"
  /\ size_in_bytes' = SizeInBytes(size_in_mb)
  /\ txt_file' = TruncatedTxt
  /\ f_open' = TRUE
  /\ bytes_written' = 0
  /\ pc' = "while"
  /\ UNCHANGED <<script, ran_before, prev_len, exc, printed, size_in_mb,
                 remaining_bytes, full_writes, last_len, exit_via, reported,
                 i, csv_file, data, json_file>>

\* line 20: the loop condition
TextWhile ==
  /\ script = "text" /\ pc = "while"
  /\ IF bytes_written < size_in_bytes
       THEN pc' = "write" /\ UNCHANGED exit_via
       ELSE pc' = "close" /\ exit_via' = "cond"
  /\ UNCHANGED <<script, ran_before, prev_len, exc, f_open, printed, size_in_mb,
                 size_in_bytes, bytes_written, remaining_bytes, txt_file,
                 full_writes, last_len, reported, i, csv_file, data, json_file>>

\* lines 21-22: a full chunk is written and counted
TextWriteChunk ==
  /\ script = "text" /\ pc = "write"
  /\ txt_file' = txt_file + WrittenBytes(chunk_size)
  /\ bytes_written' = bytes_written + Utf8Len(chunk_size)
  /\ full_writes' = full_writes + 1
  /\ pc' = "check"
  /\ UNCHANGED <<script, ran_before, prev_len, exc, f_open, printed, size_in_mb,
                 size_in_bytes, remaining_bytes, last_len, exit_via, reported,
                 i, csv_file, data, json_file>>

\* lines 23-29
TextCheck ==
  /\ script = "text" /\ pc = "check"
  /\ IF Overshoots(bytes_written, size_in_bytes)
       THEN /\ remaining_bytes' = <<size_in_bytes - bytes_written>>
            /\ IF size_in_bytes - bytes_written > 0
                 THEN pc' = "last" /\ UNCHANGED exit_via
                 ELSE pc' = "close" /\ exit_via' = "break"
       ELSE pc' = "while" /\ UNCHANGED <<remaining_bytes, exit_via>>
  /\ UNCHANGED <<script, ran_before, prev_len, exc, f_open, printed, size_in_mb,
                 size_in_bytes, bytes_written, txt_file, full_writes, last_len,
                 reported, i, csv_file, data, json_file>>

\* lines 27-29.  random.choices(..., k=remaining_bytes) needs an int k: with a
\* float argument remaining_bytes is a float and the call raises TypeError,
\* which leaves the with-block (closing f) and the function.
TextLastChunk ==
  /\ script = "text" /\ pc = "last"
  /\ IF IsInt(size_in_mb)
       THEN /\ txt_file' = txt_file + WrittenBytes(remaining_bytes[1])
            /\ last_len' = WrittenBytes(remaining_bytes[1])
            /\ pc' = "close" /\ exit_via' = "break"
            /\ UNCHANGED <<exc, f_open>>
       ELSE /\ exc' = "TypeError" /\ f_open' = FALSE
            /\ pc' = "raised" /\ exit_via' = "raise"
            /\ UNCHANGED <<txt_file, last_len>>
  /\ UNCHANGED <<script, ran_before, prev_len, printed, size_in_mb,
                 size_in_bytes, bytes_written, remaining_bytes, full_writes,
                 reported, i, csv_file, data, json_file>>

\* a write (line 21, or line 28 reached with an int) fails with OSError: part
\* of its bytes may be in the file, the with-block closes f, nothing is retried
TextWriteFail ==
  /\ script = "text"
  /\ pc = "write" \/ (pc = "last" /\ IsInt(size_in_mb))
  /\ \E part \in PartialWrites(IF pc = "write" THEN WrittenBytes(chunk_size)
                                               ELSE WrittenBytes(remaining_bytes[1])) :
        txt_file' = txt_file + part
  /\ exc' = "OSError" /\ f_open' = FALSE
  /\ pc' = "raised" /\ exit_via' = "raise"
  /\ UNCHANGED <<script, ran_before, prev_len, printed, size_in_mb,
                 size_in_bytes, bytes_written, remaining_bytes, full_writes,
                 last_len, reported, i, csv_file, data, json_file>>

\* line 18: leaving the with-block closes f
TextClose ==
  /\ script = "text" /\ pc = "close"
  /\ f_open' = FALSE
  /\ pc' = "print"
  /\ UNCHANGED <<script, ran_before, prev_len, exc, printed, i, csv_file, data,
                 json_file>>
  /\ UNCHANGED textVars

\* line 31
TextPrint ==
  /\ script = "text" /\ pc = "print"
  /\ reported' = <<Hundredths(txt_file)>>
  /\ printed' = TRUE
  /\ pc' = "done"
  /\ UNCHANGED <<script, ran_before, prev_len, exc, f_open, size_in_mb,
                 size_in_bytes, bytes_written, remaining_bytes, txt_file,
                 full_writes, last_len, exit_via, i, csv_file, data, json_file>>

----------------------------------------------------------------------------
(* str() of a non-negative int, as the sequence of its decimal digits *)

DigitChars == <<"0", "1", "2", "3", "4", "5", "6", "7", "8", "9">>

RECURSIVE Str(_)
Str(n) == IF n < 10 THEN <<DigitChars[n + 1]>>
                    ELSE Append(Str(n \div 10), DigitChars[(n % 10) + 1])

\* reading a cell back
DigitValue(c) == CHOOSE d \in 0..9 : DigitChars[d + 1] = c

IsDigit(c) == \E d \in 0..9 : DigitChars[d + 1] = c

\* a cell is the canonical decimal numeral of some non-negative int
IsNumeral(cell) ==
  /\ Len(cell) >= 1
  /\ \A k \in 1..Len(cell) : IsDigit(cell[k])
  /\ Len(cell) = 1 \/ cell[1] # "0"

\* int(cell)
RECURSIVE DecimalValue(_)
DecimalValue(cell) ==
  IF Len(cell) = 0 THEN 0
  ELSE 10 * DecimalValue(SubSeq(cell, 1, Len(cell) - 1)) + DigitValue(cell[Len(cell)])

----------------------------------------------------------------------------
(* generate_large_csv.py *)

\* line 27; a cell is the sequence of its characters
fieldnames == << <<"i", "d">>, <<"n", "a", "m", "e">>, <<"e", "m", "a", "i", "l">>,
                 <<"p", "h", "o", "n", "e">>, <<"a", "g", "e">>, <<"c", "i", "t", "y">>,
                 <<"c", "o", "u", "n", "t", "r", "y">>,
                 <<"d", "e", "p", "a", "r", "t", "m", "e", "n", "t">>,
                 <<"s", "a", "l", "a", "r", "y">>, <<"a", "c", "t", "i", "v", "e">> >>

\* range(1, 10000): one row short
CsvRangeStopShort == 10 * 1000

\* line 39: range(1, 10001)
CsvRangeStart == 1
CsvRangeStop == 10001

\* A CSV file is kept as the summary of its lines: how many there are,
\* whether line 1 is the header, whether every later line L starts with the
\* numeral of L - 1, and the first cell of the last line.
EmptyCsv == [lines |-> 0, first_is_header |-> FALSE, ids_in_order |-> TRUE,
             last |-> <<>>]

\* lines 31, 52: the writer puts one line after those the file holds; cell is
\* the line's first cell
CsvAppendLine(file, cell) ==
  [lines |-> file.lines + 1,
   first_is_header |-> IF file.lines = 0 THEN cell = fieldnames[1]
                                         ELSE file.first_is_header,
   ids_in_order |-> IF file.lines = 0 THEN TRUE
                    ELSE /\ file.ids_in_order
                         /\ IsNumeral(cell)
                         /\ DecimalValue(cell) = file.lines,
   last |-> cell]

\* open('large.csv', 'a'): the old lines are kept
AppendedCsv == csv_file

\* line 26: open('large.csv', 'w', ...) truncates
TruncatedCsv == EmptyCsv

\* line 26
CsvOpen ==
  /\ script = "csv" /\ pc = "call"
  /\ csv_file' = TruncatedCsv
  /\ f_open' = TRUE
  /\ pc' = "header"
  /\ UNCHANGED <<script, ran_before, prev_len, exc, printed, i, data, json_file>>
  /\ UNCHANGED textVars

\* line 31: writer.writeheader(); the for-loop's range starts
CsvWriteHeader ==
  /\ script = "csv" /\ pc = "header"
  /\ csv_file' = CsvAppendLine(csv_file, fieldnames[1])
  /\ i' = CsvRangeStart
  /\ pc' = "for"
  /\ UNCHANGED <<script, ran_before, prev_len, exc, f_open, printed, data, json_file>>
  /\ UNCHANGED textVars

\* lines 39-52: one iteration writes the row of id i (here i is the value the
\* range yields next); the nine random cells of the row are not kept
CsvWriteRow ==
  /\ script = "csv" /\ pc = "for"
  /\ IF i < CsvRangeStop
       THEN /\ csv_file' = CsvAppendLine(csv_file, Str(i))
            /\ i' = i + 1
            /\ pc' = "for"
       ELSE /\ pc' = "close"
            /\ UNCHANGED <<csv_file, i>>
  /\ UNCHANGED <<script, ran_before, prev_len, exc, f_open, printed, data, json_file>>
  /\ UNCHANGED textVars

\* writeheader or writerow fails with OSError: the with-block closes the file
CsvWriteFail ==
  /\ script = "csv"
  /\ pc = "header" \/ (pc = "for" /\ i < CsvRangeStop)
  /\ exc' = "OSError" /\ f_open' = FALSE
  /\ pc' = "raised"
  /\ UNCHANGED <<script, ran_before, prev_len, printed, i, csv_file, data, json_file>>
  /\ UNCHANGED textVars

\* line 26: leaving the with-block closes the file; main returns
CsvClose ==
  /\ script = "csv" /\ pc = "close"
  /\ f_open' = FALSE
  /\ pc' = "print"
  /\ UNCHANGED <<script, ran_before, prev_len, exc, printed, i, csv_file, data,
                 json_file>>
  /\ UNCHANGED textVars

\* line 56
CsvPrint ==
  /\ script = "csv" /\ pc = "print"
  /\ printed' = TRUE
  /\ pc' = "done"
  /\ UNCHANGED <<script, ran_before, prev_len, exc, f_open, i, csv_file, data,
                 json_file>>
  /\ UNCHANGED textVars

----------------------------------------------------------------------------
(* generate_large_json.py *)

BulkPrefix == <<"/", "b", "u", "l", "k", "/">>

\* line 10: range(1000)
JsonCount == 1000

\* an element built from the index after its own
ElementOffByOne(k) ==
  [method |-> "GET", requestURI |-> BulkPrefix \o Str(k + 1),
   headers |-> [X |-> Str(k + 1)], content |-> Str(k + 1)]

\* lines 4-9: the element built for index k
Element(k) ==
  [method |-> "GET", requestURI |-> BulkPrefix \o Str(k),
   headers |-> [X |-> Str(k)], content |-> Str(k)]

\* open("large.json", "a"): the old document is kept
AppendedJson == json_file

\* line 13: open("large.json", "w") truncates
TruncatedJson == <<>>

\* lines 3-11: the comprehension, one element per step (i is the index the
\* range yields next)
JsonBuild ==
  /\ script = "json" /\ pc = "call"
  /\ IF i < JsonCount
       THEN /\ data' = Append(data, Element(i))
            /\ i' = i + 1
            /\ pc' = "call"
       ELSE /\ pc' = "open"
            /\ UNCHANGED <<data, i>>
  /\ UNCHANGED <<script, ran_before, prev_len, exc, f_open, printed, csv_file,
                 json_file>>
  /\ UNCHANGED textVars

\* line 13
JsonOpen ==
  /\ script = "json" /\ pc = "open"
  /\ json_file' = TruncatedJson
  /\ f_open' = TRUE
  /\ pc' = "dump"
  /\ UNCHANGED <<script, ran_before, prev_len, exc, printed, i, csv_file, data>>
  /\ UNCHANGED textVars

\* line 14: json.dump(data, f, indent=2); the file holds the document, its
\* elements after the ones the file already held
JsonDump ==
  /\ script = "json" /\ pc = "dump"
  /\ json_file' = json_file \o data
  /\ pc' = "close"
  /\ UNCHANGED <<script, ran_before, prev_len, exc, f_open, printed, i, csv_file,
                 data>>
  /\ UNCHANGED textVars

\* line 14 fails with OSError: the file holds no complete document
JsonDumpFail ==
  /\ script = "json" /\ pc = "dump"
  /\ exc' = "OSError" /\ f_open' = FALSE
  /\ pc' = "raised"
  /\ UNCHANGED <<script, ran_before, prev_len, printed, i, csv_file, data,
                 json_file>>
  /\ UNCHANGED textVars

\* line 13: leaving the with-block closes the file; the script prints nothing
JsonClose ==
  /\ script = "json" /\ pc = "close"
  /\ f_open' = FALSE
  /\ pc' = "done"
  /\ UNCHANGED <<script, ran_before, prev_len, exc, printed, i, csv_file, data,
                 json_file>>
  /\ UNCHANGED textVars

----------------------------------------------------------------------------
(* Running a script again *)

FileLen ==
  CASE script = "text" -> txt_file
    [] script = "csv" -> csv_file.lines
    [] OTHER -> Len(json_file)

\* the script is started again with the same argument; its locals start anew,
\* the file it wrote is still there
Rerun ==
  /\ pc \in {"done", "raised"}
  /\ ~ran_before
  /\ ran_before' = TRUE
  /\ prev_len' = IF pc = "done" THEN <<FileLen>> ELSE <<>>
  /\ pc' = "call"
  /\ exc' = "none" /\ f_open' = FALSE /\ printed' = FALSE
  /\ size_in_bytes' = 0 /\ bytes_written' = 0 /\ remaining_bytes' = <<>>
  /\ full_writes' = 0 /\ last_len' = 0 /\ exit_via' = "none" /\ reported' = <<>>
  /\ i' = 0 /\ data' = <<>>
  /\ UNCHANGED <<script, size_in_mb, txt_file, csv_file, json_file>>

----------------------------------------------------------------------------

Init ==
  /\ script \in {"text", "csv", "json"}
  /\ pc = "call"
  /\ ran_before = FALSE /\ prev_len = <<>>
  /\ exc = "none" /\ f_open = FALSE /\ printed = FALSE
  /\ size_in_mb \in (IF script = "text" THEN SizeInputs ELSE {NoSize})
  /\ size_in_bytes = 0 /\ bytes_written = 0 /\ remaining_bytes = <<>>
  /\ txt_file = 0 /\ full_writes = 0 /\ last_len = 0
  /\ exit_via = "none" /\ reported = <<>>
  /\ i = 0 /\ csv_file = EmptyCsv /\ data = <<>> /\ json_file = <<>>

Next ==
  \/ TextOpen
  \/ TextWhile
  \/ TextWriteChunk
  \/ TextCheck
  \/ TextLastChunk
  \/ TextWriteFail
  \/ TextClose
  \/ TextPrint
  \/ CsvOpen
  \/ CsvWriteHeader
  \/ CsvWriteRow
  \/ CsvWriteFail
  \/ CsvClose
  \/ CsvPrint
  \/ JsonBuild
  \/ JsonOpen
  \/ JsonDump
  \/ JsonDumpFail
  \/ JsonClose
  \/ Rerun

Spec == Init /\ [][Next]_vars

\* the program keeps running while it can; nothing else is assumed
FairSpec == Spec /\ WF_vars(Next)

----------------------------------------------------------------------------
(* Reading the files back *)

\* the lines of a CSV file are a header and the ids 1..n in order
CsvShape(file, n) ==
  /\ file.lines = n + 1
  /\ file.first_is_header
  /\ file.ids_in_order
  /\ n > 0 => DecimalValue(file.last) = n

\* a JSON document is the array of n request descriptors of indices 0..n-1
JsonShape(doc, n) ==
  /\ Len(doc) = n
  /\ \A k \in 0..(n - 1) :
       LET e == doc[k + 1]
       IN  /\ e.method = "GET"
           /\ IsNumeral(e.content) /\ DecimalValue(e.content) = k
           /\ e.requestURI = <<"/", "b", "u", "l", "k", "/">> \o e.content
           /\ DOMAIN e.headers = {"X"}
           /\ e.headers.X = e.content

TextFinished == script = "text" /\ pc = "done"

----------------------------------------------------------------------------
(* Claims *)

\* C1: for every non-negative int size_in_mb, a run of generate_large_file
\* that finishes has written exactly size_in_mb * 1024 * 1024 bytes, full
\* chunks plus final chunk, and that is what the file holds.
C1_ExactSize ==
  (TextFinished /\ IsInt(size_in_mb)) =>
     /\ txt_file = size_in_mb.num * 1024 * 1024
     /\ full_writes * chunk_size + last_len = txt_file

C1_Witness ==
  TextFinished /\ IsInt(size_in_mb) /\ size_in_mb.num = 1 /\ txt_file = 1048576

\* C2: for every target (also one smaller than a chunk, or no multiple of
\* it) the file never holds more than target_bytes while the run writes it.
C2_NeverOvershoots ==
  (script = "text" /\ pc # "call" /\ exc = "none") => txt_file <= size_in_bytes

C4_ExactMultiple ==
  (script = "text" /\ size_in_bytes > 0 /\ size_in_bytes % chunk_size = 0) =>
     /\ exc # "TypeError"
     /\ pc /= "last"
     /\ pc \in {"close", "print", "done"} =>
          /\ full_writes = size_in_bytes \div chunk_size
          /\ remaining_bytes = <<0>>
          /\ last_len = 0
          /\ txt_file = size_in_bytes
          /\ (IsInt(size_in_mb) /\ size_in_mb.num = 2) =>
                (full_writes = 2048 /\ txt_file = 2097152)

C4_Witness ==
  /\ TextFinished /\ IsInt(size_in_mb) /\ size_in_mb.num = 2
  /\ full_writes = 2048 /\ remaining_bytes = <<0>>

\* C5: for every target >= 0, a run of generate_large_file that no I/O error
\* ends reaches the state where the file is closed and the size reported.
C5_Terminates ==
  (script = "text" /\ pc = "call") ~>
     (\/ pc = "done" /\ ~f_open /\ printed /\ reported # <<>>
      \/ exc = "OSError")

\* C6: the finished CSV file is the header and then exactly 10,000 rows of
\* ids 1, 2, ..., 10000 in order; while the rows are written the file is the
\* header and one row per id handed out so far.
C6_CsvRows ==
  script = "csv" =>
     /\ pc = "for" => CsvShape(csv_file, i - 1)
     /\ pc \in {"close", "print", "done"} => CsvShape(csv_file, 10000)

C6_Witness ==
  /\ script = "csv" /\ pc = "done" /\ printed
  /\ csv_file.lines = 10001 /\ csv_file.last = <<"1", "0", "0", "0", "0">>

\* C7: the JSON document written is an array of exactly 1000 objects, the
\* one at index k with method GET, requestURI /bulk/<k>, content str(k) and
\* headers {X: str(k)}.
C7_JsonArray ==
  script = "json" =>
     /\ pc = "call" => JsonShape(data, i)
     /\ pc \in {"close", "done"} => JsonShape(json_file, 1000)

C7_Witness ==
  /\ script = "json" /\ pc = "done" /\ Len(json_file) = 1000
  /\ json_file[1000].content = <<"9", "9", "9">>

\* C8: a generator run again on the file it left overwrites it: when the
\* second run is done the file holds that run's output only, of the same
\* shape and size as what the first run left.
C8_Overwrites ==
  (ran_before /\ pc = "done") =>
     /\ prev_len # <<>> => FileLen = prev_len[1]
     /\ script = "text" => txt_file = full_writes * chunk_size + last_len
     /\ script = "csv" => CsvShape(csv_file, 10000)
     /\ script = "json" => JsonShape(json_file, 1000)

C8_Witness ==
  /\ ran_before /\ TextFinished /\ prev_len = <<1048576>> /\ txt_file = 1048576

\* C9: when a write of generate_large_file fails, the run has stopped with
\* the file closed and no completion message, and the file holds strictly
\* fewer bytes than target_bytes.
C9_FailedWrite ==
  (script = "text" /\ exc = "OSError") =>
     /\ pc = "raised" /\ ~f_open /\ ~printed
     /\ txt_file < size_in_bytes

\* C10: whenever the loop condition is evaluated, bytes_written is the
\* number of bytes in the file and a multiple of chunk_size; a final chunk
\* is asked for with exactly target_bytes - bytes_written characters, more
\* than 0 and fewer than chunk_size, and is never added to the counter.
C10_Counter ==
  script = "text" =>
     /\ pc = "while" => /\ bytes_written = txt_file
                        /\ bytes_written % chunk_size = 0
                        /\ bytes_written = full_writes * chunk_size
     /\ pc = "last" => /\ remaining_bytes = <<size_in_bytes - bytes_written>>
                       /\ 0 < remaining_bytes[1]
                       /\ remaining_bytes[1] < chunk_size
     /\ last_len > 0 => /\ txt_file = bytes_written + last_len
                        /\ last_len = size_in_bytes - bytes_written
                        /\ last_len < chunk_size

C10_Witness ==
  /\ script = "text" /\ pc = "while"
  /\ full_writes >= 2 /\ bytes_written = txt_file

====
